---- MODULE Spec2Model ----
(***************************************************************************)
(* Model of the threshold-signature key-management service:                *)
(*   src/src/services/mpc/tss-coordinator.service.ts  (TSSParty,           *)
(*        FeldmanVSS, TSSCoordinatorService)                               *)
(*   src/src/services/mpc/mpc-coordinator.service.ts  (MPCCoordinator-     *)
(*        Service)                                                         *)
(*   src/src/config/mpc.config.ts                     (mpcConfig)          *)
(*                                                                         *)
(* The curve is y^2 = x^3 + 7 (the secp256k1 equation) over GF(13), whose  *)
(* group has prime order 7, so that the group order n, the scalar field    *)
(* and the point arithmetic are small enough to enumerate.  Points are     *)
(* affine pairs <<x, y>>; the point at infinity is <<>>.  sha256 is a      *)
(* small stand-in digest over byte sequences.                              *)
(***************************************************************************)
EXTENDS Integers, Sequences, FiniteSets, TLC

(***************************************************************************)
(* Bounds of the model.                                                    *)
(***************************************************************************)
\* wallet ids the callers use
Wallets == {"wA", "wB"}
\* slots of concurrent requests in flight (async call chains of the event loop)
Procs == {1, 2}
\* largest totalParties / MPC_NODES
MaxParties == 3
\* largest threshold / MPC_THRESHOLD
MaxThreshold == 2
\* largest message byte (a message is the one-byte buffer <<b>>)
MaxMsgByte == 1
\* longest signingParties list of a direct signWithTSS call
MaxSigners == 2
\* events of one behaviour: operations started and store requests failed
MaxCalls == 3
\* direct calls of performDKG and initializeParties in one behaviour
MaxDirectCalls == 2
\* generateMPCWallet calls in one behaviour
MaxGenerates == 2
\* signing calls in one behaviour
MaxSigns == 1
\* store requests that fail with an I/O error in one behaviour
MaxFaults == 1
\* largest value crypto.randomBytes(32) % n takes
MaxRandom == 1
\* largest threshold of a FeldmanVSS.generateShares call made on its own
MaxVSSThreshold == 3
\* largest byte of an Ed25519 seed
MaxKeyByte == 2

(***************************************************************************)
(* Field / curve primitives (elliptic's secp256k1, scaled down).           *)
(***************************************************************************)
\* group order: const n = BigInt('0xFFFF...4141')
n == 7

\* the point with null coordinates: ec.curve.point(null, null)
Infinity == <<>>

\* k*G for k = 1..n-1 on y^2 = x^3 + 7 over GF(13), G = (7, 5)
PointTable ==
    << <<7, 5>>, <<8, 5>>, <<11, 8>>, <<11, 5>>, <<8, 8>>, <<7, 8>> >>

Points == {Infinity} \cup {PointTable[k] : k \in 1..(n - 1)}

Scalars == 0..(n - 1)

\* values of BigInt('0x' + crypto.randomBytes(32).toString('hex')) % n
RandomScalars == {r \in Scalars : r <= MaxRandom}

\* ec.g.mul(k)
MulG(k) == IF k % n = 0 THEN Infinity ELSE PointTable[k % n]

\* discrete logarithm of a point to base G (group isomorphism, model only)
DLog(P) == IF P = Infinity THEN 0 ELSE CHOOSE k \in 1..(n - 1) : PointTable[k] = P

\* P.add(Q)
PointAdd(P, Q) == MulG(DLog(P) + DLog(Q))

\* P.mul(k)
PointMul(P, k) == MulG(DLog(P) * k)

\* P.getX(): a TypeError on the point at infinity (x is null)
HasX(P) == P # Infinity
GetX(P) == P[1]
GetY(P) == P[2]

\* P.encode('hex', true): prefix byte 02/03 by the parity of y, then x
EncodeCompressed(P) == <<2 + (GetY(P) % 2), GetX(P)>>

\* ec.curve.decodePoint(bytes, 'hex') of a compressed encoding
DecodePoint(bytes) ==
    CHOOSE P \in Points \ {Infinity} :
        GetX(P) = bytes[2] /\ (GetY(P) % 2) = bytes[1] - 2

\* sha256 stand-in: a digest in 0..250 of a byte sequence
RECURSIVE Sha256Fold(_, _, _)
Sha256Fold(bytes, i, h) ==
    IF i > Len(bytes) THEN h
    ELSE Sha256Fold(bytes, i + 1, (h * 37 + bytes[i] * 101 + 59) % 251)

Sha256(bytes) == Sha256Fold(bytes, 1, 113)

\* share.toString(16).padStart(64, '0'): fixed-width big-endian hex digits
\* (two digits suffice for scalars below n)
ToHex(s) == <<s \div 16, s % 16>>

\* BigInt('0x' + hex)
FromHex(h) == h[1] * 16 + h[2]

\* Buffer.from(hex, 'hex') of a padded scalar: its big-endian bytes
KeyBytes(s) == <<FromHex(ToHex(s))>>

\* null and non-null values of a nullable field
Null == <<>>
Some(v) == <<v>>
Val(o) == o[1]

(***************************************************************************)
(* FeldmanVSS                                                              *)
(***************************************************************************)
\* FeldmanVSS.modPow: square-and-multiply
RECURSIVE ModPowLoop(_, _, _, _)
ModPowLoop(result, base, exp, modulus) ==
    IF exp > 0
    THEN ModPowLoop(IF exp % 2 = 1 THEN (result * base) % modulus ELSE result,
                    (base * base) % modulus, exp \div 2, modulus)
    ELSE result

ModPow(base, exp, modulus) ==
    IF exp = 0 THEN 1 ELSE ModPowLoop(1, base % modulus, exp, modulus)

\* FeldmanVSS.evaluatePolynomial: f(x) = sum a_i * x^i, coefficients[i+1] = a_i
RECURSIVE EvalLoop(_, _, _, _)
EvalLoop(coefficients, x, i, result) ==
    IF i >= Len(coefficients) THEN result
    ELSE EvalLoop(coefficients, x, i + 1,
                  (result + ((coefficients[i + 1] * ModPow(x, i, n)) % n)) % n)

\* an evaluatePolynomial that leaves out the constant term
EvaluatePolynomialNoConstant(coefficients, x) == EvalLoop(coefficients, x, 1, 0)

EvaluatePolynomial(coefficients, x) == EvalLoop(coefficients, x, 0, 0)

\* FeldmanVSS.verifyShare: share*G = sum C_j * partyId^j
RECURSIVE VerifyLoop(_, _, _, _)
VerifyLoop(partyId, cms, j, rightSide) ==
    IF j >= Len(cms) THEN rightSide
    ELSE VerifyLoop(partyId, cms, j + 1,
                    PointAdd(rightSide, PointMul(cms[j + 1], ModPow(partyId, j, n))))

VerifyShare(partyId, share, cms) ==
    MulG(share) = VerifyLoop(partyId, cms, 0, Infinity)

\* a generateShares that gives party x the value of the polynomial at x + 1
GenerateSharesShifted(coefficients, totalParties) ==
    LET cms == [j \in 1..Len(coefficients) |-> MulG(coefficients[j])]
    IN  [masterPublicKey |-> cms[1],
         shares |-> [x \in 1..totalParties |-> EvaluatePolynomial(coefficients, x + 1)],
         commitments |-> cms]

\* FeldmanVSS.generateShares, for the coefficients the random draws produced
GenerateShares(coefficients, totalParties) ==
    LET cms == [j \in 1..Len(coefficients) |-> MulG(coefficients[j])]
    IN  [masterPublicKey |-> cms[1],
         shares |-> [x \in 1..totalParties |-> EvaluatePolynomial(coefficients, x)],
         commitments |-> cms]

\* the coefficient vectors generateShares can draw for a threshold
Coefficients(threshold) == [1..threshold -> RandomScalars]

(***************************************************************************)
(* State                                                                   *)
(***************************************************************************)
VARIABLES
    \* mpcConfig: [nodes, threshold], read from the environment at load time
    mpcConfig,
    \* the secrets store: secret name -> SecretString
    secrets,
    \* TSSCoordinatorService.parties: partyId -> TSSParty
    parties,
    \* TSSCoordinatorService.masterPublicKey (Null until a DKG ran)
    masterPublicKey,
    \* TSSCoordinatorService.commitments
    commitments,
    \* per request in flight: the position and locals of its async call chain
    \* (conflict, a history field: a put of the run was answered 'already exists')
    req,
    \* per request slot: the response its caller last received
    ret,
    \* the response of the last signing call (signWithTSS never awaits: a
    \* call runs to its end before any other code of the event loop)
    signRet,
    \* history: the wallet id each Party was initialised for
    partyWallet,
    \* history: the successful performDKG returns, [walletId, commitments]
    dkgDone,
    \* counters that bound a behaviour
    calls,
    directCalls,
    signs,
    faults

vars == <<mpcConfig, secrets, parties, masterPublicKey, commitments, req, ret,
          signRet, partyWallet, dkgDone, calls, directCalls, signs,
          faults>>

Idle == [op |-> "idle"]
NoResponse == [kind |-> "none"]

\* a message is a Buffer; here the one-byte buffers
Messages == {<<b>> : b \in 0..MaxMsgByte}

\* parseInt(process.env.MPC_NODES || '3'), parseInt(process.env.MPC_THRESHOLD || '2')
DefaultConfig == [nodes |-> 3, threshold |-> 2]

\* the configurations the environment can set
Configs == [nodes : 1..MaxParties, threshold : 1..MaxThreshold] \cup {DefaultConfig}

Init ==
    /\ mpcConfig \in Configs
    /\ secrets = <<>>
    /\ parties = <<>>
    /\ masterPublicKey = Null
    /\ commitments = <<>>
    /\ req = [p \in Procs |-> Idle]
    /\ ret = [p \in Procs |-> NoResponse]
    /\ signRet = NoResponse
    /\ partyWallet = <<>>
    /\ dkgDone = {}
    /\ calls = 0
    /\ directCalls = 0
    /\ signs = 0
    /\ faults = 0

(***************************************************************************)
(* Share store adapter                                                     *)
(***************************************************************************)
\* `hyperliquid/tss-shares/${walletId}/share-${shareId}`
SecretName(walletId, shareId) == <<"hyperliquid/tss-shares", walletId, shareId>>

\* m with key k set to v (Map.set / a created secret)
MapSet(m, k, v) == [x \in DOMAIN m \cup {k} |-> IF x = k THEN v ELSE m[x]]

\* a storeKeyShare that replaces the value of a secret that exists
StoreKeyShareOverwrite(st, walletId, shareId, share, fault) ==
    LET secretName == SecretName(walletId, shareId)
    IN  IF fault THEN [secrets |-> st, threw |-> TRUE, existed |-> FALSE]
        ELSE [secrets |-> MapSet(st, secretName, ToHex(share)), threw |-> FALSE,
              existed |-> secretName \in DOMAIN st]

\* storeKeyShare: CreateSecretCommand, whose 'already exists' error is
\* swallowed and whose other errors are rethrown.  fault: the request fails
\* with an I/O error.  existed: the store answered 'already exists'.
StoreKeyShare(st, walletId, shareId, share, fault) ==
    LET secretName == SecretName(walletId, shareId)
        shareHex == ToHex(share)
    IN  IF fault THEN [secrets |-> st, threw |-> TRUE, existed |-> FALSE]
        ELSE IF secretName \in DOMAIN st
        THEN [secrets |-> st, threw |-> FALSE, existed |-> TRUE]
        ELSE [secrets |-> MapSet(st, secretName, shareHex), threw |-> FALSE,
              existed |-> FALSE]

\* getKeyShare: GetSecretValueCommand; when the secret is absent or the
\* request fails the catch block returns a random scalar (rnd) instead
GetKeyShare(st, walletId, partyId, fault, rnd) ==
    LET secretName == SecretName(walletId, partyId)
    IN  IF ~fault /\ secretName \in DOMAIN st
        THEN FromHex(st[secretName])
        ELSE rnd

(***************************************************************************)
(* TSSCoordinatorService.performDKG / initializeParties and                *)
(* MPCCoordinatorService.generateMPCWallet                                 *)
(***************************************************************************)
\* the events of the behaviour so far
Events == calls + directCalls + faults

\* a store request may fail with an I/O error
CanFail == faults < MaxFaults /\ Events < MaxCalls

\* a request can start in slot p: the slot is free and (the slots being
\* interchangeable) every lower slot is taken
CanStart(p) ==
    /\ Events < MaxCalls
    /\ req[p].op = "idle"
    /\ \A q \in Procs : q < p => req[q].op # "idle"

\* entry of performDKG up to its first await: generateShares and the
\* assignment of masterPublicKey and commitments
DKGBegin(p, op, walletId, threshold, totalParties, coefficients) ==
    LET vss == GenerateShares(coefficients, totalParties)
    IN  /\ masterPublicKey' = Some(vss.masterPublicKey)
        /\ commitments' = vss.commitments
        /\ req' = [req EXCEPT ![p] =
                     [op |-> op, pc |-> "dkg", walletId |-> walletId,
                      threshold |-> threshold, totalParties |-> totalParties,
                      vss |-> vss, i |-> 1, conflict |-> FALSE]]
        /\ ret' = [ret EXCEPT ![p] = NoResponse]
        /\ UNCHANGED <<mpcConfig, secrets, parties, signRet,
                       partyWallet, dkgDone, signs, faults>>

\* a direct call of TSSCoordinatorService.performDKG
PerformDKG(p) ==
    \E walletId \in Wallets, threshold \in 1..MaxThreshold,
       totalParties \in 1..MaxParties :
        \E coefficients \in Coefficients(threshold) :
            /\ CanStart(p)
            /\ directCalls < MaxDirectCalls
            /\ directCalls' = directCalls + 1
            /\ UNCHANGED calls
            /\ DKGBegin(p, "performDKG", walletId, threshold, totalParties, coefficients)

\* MPCCoordinatorService.generateMPCWallet: performDKG with the configured
\* threshold and nodes, then initializeParties
GenerateMPCWallet(p) ==
    \E walletId \in Wallets :
        \E coefficients \in Coefficients(mpcConfig.threshold) :
            /\ CanStart(p)
            /\ calls - signs < MaxGenerates
            /\ calls' = calls + 1
            /\ UNCHANGED directCalls
            /\ DKGBegin(p, "generateMPCWallet", walletId, mpcConfig.threshold,
                        mpcConfig.nodes, coefficients)

\* a generateMPCWallet that catches the error of performDKG and goes on to
\* initializeParties
ThrowAndInitialize(p, message) ==
    /\ req' = [req EXCEPT ![p].pc = "init", ![p].i = 1]
    /\ UNCHANGED ret

\* the request ends with a thrown error
Throw(p, message) ==
    /\ req' = [req EXCEPT ![p] = Idle]
    /\ ret' = [ret EXCEPT ![p] =
                 [kind |-> "error", op |-> req[p].op,
                  walletId |-> req[p].walletId, message |-> message]]

\* a result object whose share ids count from 0
DKGResultZeroBased(r) ==
    [publicKey |-> EncodeCompressed(r.vss.masterPublicKey),
     shareIds |-> [k \in 1..r.totalParties |-> k - 1]]

\* performDKG's result object
DKGResult(r) ==
    [publicKey |-> EncodeCompressed(r.vss.masterPublicKey),
     shareIds |-> [k \in 1..r.totalParties |-> k]]

\* one iteration of performDKG's verify-and-store loop (the store request
\* and the code up to the next await); after the last one the public key is
\* encoded and performDKG returns
DKGStore(p) ==
    /\ req[p].op # "idle"
    /\ req[p].op \in {"performDKG", "generateMPCWallet"}
    /\ req[p].pc = "dkg"
    /\ LET r == req[p]
           partyId == r.i
           share == r.vss.shares[partyId]
       IN  IF ~VerifyShare(partyId, share, r.vss.commitments)
           THEN /\ Throw(p, "Share verification failed")
                /\ UNCHANGED <<secrets, faults, dkgDone>>
           ELSE \E fault \in BOOLEAN :
                /\ fault => CanFail
                /\ faults' = IF fault THEN faults + 1 ELSE faults
                /\ LET put == StoreKeyShare(secrets, r.walletId, partyId, share, fault)
                   IN  /\ secrets' = put.secrets
                       /\ IF put.threw
                          THEN /\ Throw(p, "store error")
                               /\ UNCHANGED dkgDone
                          ELSE IF partyId < r.totalParties
                          THEN /\ req' = [req EXCEPT ![p].i = partyId + 1,
                                                     ![p].conflict = r.conflict \/ put.existed]
                               /\ UNCHANGED <<ret, dkgDone>>
                          ELSE IF ~HasX(r.vss.masterPublicKey)
                          THEN /\ Throw(p, "TypeError: encode of the point at infinity")
                               /\ UNCHANGED dkgDone
                          ELSE /\ dkgDone' = dkgDone \cup
                                      {[walletId |-> r.walletId,
                                        commitments |-> r.vss.commitments]}
                               /\ IF r.op = "performDKG"
                                  THEN /\ req' = [req EXCEPT ![p] = Idle]
                                       /\ ret' = [ret EXCEPT ![p] =
                                            [kind |-> "ok", op |-> r.op,
                                             walletId |-> r.walletId,
                                             publicKey |-> DKGResult(r).publicKey,
                                             shareIds |-> DKGResult(r).shareIds,
                                             conflict |-> r.conflict \/ put.existed]]
                                  ELSE /\ req' = [req EXCEPT ![p].pc = "init",
                                                             ![p].i = 1,
                                                             ![p].conflict = r.conflict \/ put.existed]
                                       /\ UNCHANGED ret
    /\ UNCHANGED <<mpcConfig, parties, masterPublicKey, commitments,
                   signRet, partyWallet, calls, directCalls, signs>>

\* a direct call of TSSCoordinatorService.initializeParties
InitializeParties(p) ==
    \E walletId \in Wallets, totalParties \in 1..MaxParties :
        /\ CanStart(p)
        /\ directCalls < MaxDirectCalls
        /\ directCalls' = directCalls + 1
        /\ req' = [req EXCEPT ![p] =
                     [op |-> "initializeParties", pc |-> "init",
                      walletId |-> walletId, totalParties |-> totalParties,
                      i |-> 1]]
        /\ ret' = [ret EXCEPT ![p] = NoResponse]
        /\ UNCHANGED <<mpcConfig, secrets, parties, masterPublicKey, commitments,
                       signRet, partyWallet, dkgDone, calls, signs,
                       faults>>

\* new TSSParty(partyId, keyShare)
NewParty(partyId, keyShare) ==
    [partyId |-> partyId, keyShare |-> keyShare,
     ephemeralKey |-> Null, ephemeralCommitment |-> Null]

\* one iteration of initializeParties' loop: getKeyShare, then the Party is
\* constructed and put into the map; after the last one the call returns
InitStep(p) ==
    /\ req[p].op # "idle"
    /\ req[p].op \in {"initializeParties", "generateMPCWallet"}
    /\ req[p].pc = "init"
    /\ LET r == req[p]
       IN  \E fault \in BOOLEAN, rnd \in RandomScalars :
            /\ fault => CanFail
            \* the random scalar is drawn only in the catch block
            /\ (~fault /\ SecretName(r.walletId, r.i) \in DOMAIN secrets) => rnd = 0
            /\ faults' = IF fault THEN faults + 1 ELSE faults
            /\ LET share == GetKeyShare(secrets, r.walletId, r.i, fault, rnd)
               IN  /\ parties' = MapSet(parties, r.i, NewParty(r.i, share))
                   /\ partyWallet' = MapSet(partyWallet, r.i, r.walletId)
            /\ IF r.i < r.totalParties
               THEN /\ req' = [req EXCEPT ![p].i = r.i + 1]
                    /\ UNCHANGED ret
               ELSE /\ req' = [req EXCEPT ![p] = Idle]
                    /\ ret' = [ret EXCEPT ![p] =
                         IF r.op = "generateMPCWallet"
                         THEN [kind |-> "ok", op |-> r.op, walletId |-> r.walletId,
                               publicKey |-> DKGResult(r).publicKey,
                               shareIds |-> DKGResult(r).shareIds,
                               conflict |-> r.conflict]
                         ELSE [kind |-> "ok", op |-> r.op, walletId |-> r.walletId]]
    /\ UNCHANGED <<mpcConfig, secrets, masterPublicKey, commitments,
                   signRet, dkgDone, calls, directCalls, signs>>

(***************************************************************************)
(* TSSParty                                                                *)
(***************************************************************************)
\* a nonce whose zero residue is replaced by a value outside [1, n)
GenerateNonceOutOfRange(party, message) ==
    LET nonce == Sha256(KeyBytes(party.keyShare) \o message) % n
    IN  IF nonce = 0 THEN n + 1 ELSE nonce

\* a nonce that also depends on what the Party holds from its last session
GenerateNonceFromState(party, message) ==
    LET nonce == Sha256(KeyBytes(party.keyShare) \o message \o party.ephemeralKey) % n
    IN  IF nonce = 0 THEN 1 ELSE nonce

\* TSSParty.generateDeterministicNonce: sha256(keyBytes || message) % n,
\* 1 when that is 0
GenerateDeterministicNonce(party, message) ==
    LET nonce == Sha256(KeyBytes(party.keyShare) \o message) % n
    IN  IF nonce = 0 THEN 1 ELSE nonce

\* a generateCommitment that keeps an ephemeral key the Party already holds
\* (the k of an earlier session) instead of storing the one of this session
GenerateCommitmentKeepNonce(party, message) ==
    LET nonce == IF party.ephemeralKey # Null THEN Val(party.ephemeralKey)
                 ELSE GenerateDeterministicNonce(party, message)
        rEncoded == EncodeCompressed(MulG(nonce))
        digest == Sha256(rEncoded)
    IN  [party |-> [party EXCEPT !.ephemeralKey = Some(nonce),
                                 !.ephemeralCommitment = Some(digest)],
         commit |-> [commitment |-> digest, publicEphemeral |-> rEncoded]]

\* TSSParty.generateCommitment: the Party after the call and what it returns
GenerateCommitment(party, message) ==
    LET nonce == GenerateDeterministicNonce(party, message)
        rEncoded == EncodeCompressed(MulG(nonce))
        digest == Sha256(rEncoded)
    IN  [party |-> [party EXCEPT !.ephemeralKey = Some(nonce),
                                 !.ephemeralCommitment = Some(digest)],
         commit |-> [commitment |-> digest, publicEphemeral |-> rEncoded]]

\* TSSParty.verifyCommitment
VerifyCommitment(party, decommitment) ==
    /\ party.ephemeralCommitment # Null
    /\ Sha256(decommitment) = Val(party.ephemeralCommitment)

\* a createPartialSignature that finds no ephemeral key whatever Round 1 did
PartialSignatureAlwaysThrows(party) == TRUE

\* TSSParty.createPartialSignature throws unless an ephemeral key is set
\* (!this.ephemeralKey: null or 0n)
PartialSignatureThrows(party) ==
    \/ party.ephemeralKey = Null
    \/ Val(party.ephemeralKey) = 0

\* TSSParty.createPartialSignature: s_i = k_i + e * x_i (mod n)
CreatePartialSignature(party, message, aggregatedR) ==
    LET e == Sha256(message) % n
        rX == GetX(aggregatedR)
    IN  [partialS |-> (Val(party.ephemeralKey) + (e * party.keyShare)) % n,
         rX |-> ToHex(rX)]

(***************************************************************************)
(* TSSCoordinatorService.signWithTSS                                       *)
(***************************************************************************)
\* the signingParties lists of a direct call: party ids 0..MaxParties
SignerLists ==
    UNION {[1..len -> 0..MaxParties] : len \in 0..MaxSigners}

\* position of partyId among the entries of a Map kept as a sequence (0: absent)
EntryIndex(entries, partyId) ==
    IF \E k \in 1..Len(entries) : entries[k].partyId = partyId
    THEN CHOOSE k \in 1..Len(entries) : entries[k].partyId = partyId
    ELSE 0

\* commitments.set(partyId, commit): a new key is appended, an old key keeps
\* its place
EntrySet(entries, partyId, commit) ==
    LET k == EntryIndex(entries, partyId)
        entry == [partyId |-> partyId, commit |-> commit]
    IN  IF k = 0 THEN Append(entries, entry) ELSE [entries EXCEPT ![k] = entry]

\* a Round 1 that passes over a party id that has no Party, as Round 3 does
RECURSIVE Round1SkipMissing(_, _, _, _, _)
Round1SkipMissing(ps, signingParties, message, i, entries) ==
    IF i > Len(signingParties)
    THEN [parties |-> ps, commitments |-> entries, threw |-> FALSE]
    ELSE LET partyId == signingParties[i]
         IN  IF partyId \notin DOMAIN ps
             THEN Round1SkipMissing(ps, signingParties, message, i + 1, entries)
             ELSE LET g == GenerateCommitment(ps[partyId], message)
                  IN  Round1SkipMissing([ps EXCEPT ![partyId] = g.party],
                                        signingParties, message, i + 1,
                                        EntrySet(entries, partyId, g.commit))

\* Round 1: the loop over signingParties from index i; it stops with an error
\* at the first party id that has no Party
RECURSIVE Round1(_, _, _, _, _)
Round1(ps, signingParties, message, i, entries) ==
    IF i > Len(signingParties)
    THEN [parties |-> ps, commitments |-> entries, threw |-> FALSE]
    ELSE LET partyId == signingParties[i]
         IN  IF partyId \notin DOMAIN ps
             THEN [parties |-> ps, commitments |-> entries, threw |-> TRUE]
             ELSE LET g == GenerateCommitment(ps[partyId], message)
                  IN  Round1([ps EXCEPT ![partyId] = g.party], signingParties,
                             message, i + 1, EntrySet(entries, partyId, g.commit))

\* a Round 2 that stops aggregating after the first entry
Round2FirstOnly(ps, entries, j, aggregatedR) ==
    IF Len(entries) = 0
    THEN [aggregatedR |-> aggregatedR, threw |-> FALSE]
    ELSE [aggregatedR |-> DecodePoint(entries[1].commit.publicEphemeral),
          threw |-> FALSE]

\* Round 2: every entry's commitment is verified and its point added to R
RECURSIVE Round2(_, _, _, _)
Round2(ps, entries, j, aggregatedR) ==
    IF j > Len(entries)
    THEN [aggregatedR |-> aggregatedR, threw |-> FALSE]
    ELSE LET entry == entries[j]
         IN  IF ~VerifyCommitment(ps[entry.partyId], entry.commit.publicEphemeral)
             THEN [aggregatedR |-> aggregatedR, threw |-> TRUE]
             ELSE Round2(ps, entries, j + 1,
                         PointAdd(aggregatedR, DecodePoint(entry.commit.publicEphemeral)))

\* Round 3: the loop over signingParties; a party id without a Party is skipped
RECURSIVE Round3(_, _, _, _, _, _)
Round3(ps, signingParties, message, aggregatedR, i, partials) ==
    IF i > Len(signingParties)
    THEN [partialSignatures |-> partials, threw |-> FALSE]
    ELSE LET partyId == signingParties[i]
         IN  IF partyId \notin DOMAIN ps
             THEN Round3(ps, signingParties, message, aggregatedR, i + 1, partials)
             ELSE IF PartialSignatureThrows(ps[partyId])
             THEN [partialSignatures |-> partials, threw |-> TRUE]
             ELSE LET partial == CreatePartialSignature(ps[partyId], message, aggregatedR)
                  IN  Round3(ps, signingParties, message, aggregatedR, i + 1,
                             Append(partials, [partyId |-> partyId,
                                               s |-> partial.partialS,
                                               r |-> partial.rX]))

\* Round 4: s = sum of the partial s_i (mod n)
RECURSIVE AggregateS(_, _, _)
AggregateS(partials, i, aggregatedS) ==
    IF i > Len(partials) THEN aggregatedS
    ELSE AggregateS(partials, i + 1, (aggregatedS + partials[i].s) % n)

\* modular inverse (s.invm(n))
InvMod(a) == CHOOSE w \in 1..(n - 1) : (a * w) % n = 1

\* TSSCoordinatorService.verifySignature: ec.verify(sha256(message), {r, s},
\* masterPublicKey); r and s are the hex strings of the signature
VerifySignature(mpk, message, r, s) ==
    LET rv == FromHex(r)
        sv == FromHex(s)
        e == Sha256(message) % n
    IN  /\ mpk # Null
        /\ rv >= 1 /\ rv < n
        /\ sv >= 1 /\ sv < n
        /\ LET sinv == InvMod(sv)
               u1 == (sinv * e) % n
               u2 == (sinv * rv) % n
               pt == PointAdd(MulG(u1), PointMul(Val(mpk), u2))
           IN  /\ pt # Infinity
               /\ GetX(pt) % n = rv

\* signWithTSS from its entry to its return or throw: the Parties after the
\* call and the response.  The verification block that follows the return
\* statement in the source is never executed, so verified stays FALSE.
SignWithTSSCall(ps, message, signingParties) ==
    LET r1 == Round1(ps, signingParties, message, 1, <<>>)
        r2 == Round2(r1.parties, r1.commitments, 1, Infinity)
        r3 == Round3(r1.parties, signingParties, message, r2.aggregatedR, 1, <<>>)
        partials == r3.partialSignatures
        failed(round, text) ==
            [parties |-> r1.parties,
             response |-> [kind |-> "error", signingParties |-> signingParties,
                           round |-> round, message |-> text]]
    IN  IF r1.threw THEN failed(1, "Party not initialized")
        ELSE IF r2.threw THEN failed(2, "Commitment verification failed")
        ELSE IF ~HasX(r2.aggregatedR)
        THEN failed(2, "TypeError: getX of the point at infinity")
        ELSE IF r3.threw THEN failed(3, "Ephemeral key not initialized")
        ELSE IF Len(partials) = 0
        THEN failed(4, "TypeError: partialSignatures[0] is undefined")
        ELSE [parties |-> r1.parties,
              response |->
                 [kind |-> "signature",
                  message |-> message,
                  signingParties |-> signingParties,
                  committed |-> [k \in 1..Len(r1.commitments) |->
                                    r1.commitments[k].partyId],
                  signers |-> [k \in 1..Len(partials) |-> partials[k].partyId],
                  partials |-> [k \in 1..Len(partials) |-> partials[k].s],
                  r |-> partials[1].r,
                  s |-> ToHex(AggregateS(partials, 1, 0)),
                  method |-> "Threshold Signatures (Feldman VSS DKG + Multi-round Protocol)",
                  verified |-> FALSE]]

\* a signing call: op is the entry point, walletId the wallet asked for
SignCall(op, walletId, message, signingParties) ==
    /\ Events < MaxCalls
    /\ signs < MaxSigns
    /\ calls' = calls + 1
    /\ signs' = signs + 1
    /\ LET call == SignWithTSSCall(parties, message, signingParties)
       IN  /\ parties' = call.parties
           /\ signRet' =
                IF call.response.kind = "signature"
                THEN [op |-> op, walletId |-> walletId] @@ call.response
                ELSE call.response
    /\ UNCHANGED <<mpcConfig, secrets, masterPublicKey, commitments, req, ret,
                   partyWallet, dkgDone, directCalls, faults>>

\* a direct call of TSSCoordinatorService.signWithTSS (which never reads its
\* walletId argument: one wallet id stands for all)
SignWithTSS ==
    \E walletId \in {"wA"}, message \in Messages, signingParties \in SignerLists :
        SignCall("signWithTSS", walletId, message, signingParties)

\* MPCCoordinatorService.signWithMPC: signWithTSS with signingParties [1, 2];
\* its signature is '0x' + r + s
SignWithMPC ==
    \E walletId \in Wallets, message \in Messages :
        SignCall("signWithMPC", walletId, message, <<1, 2>>)

\* the signature string signWithMPC returns for a signWithTSS result
MPCSignature(response) == response.r \o response.s

(***************************************************************************)
(* Specifications                                                          *)
(***************************************************************************)
\* the service as the facade drives it, and signWithTSS called directly
Next ==
    \/ \E p \in Procs : GenerateMPCWallet(p)
    \/ \E p \in Procs : DKGStore(p)
    \/ \E p \in Procs : InitStep(p)
    \/ SignWithMPC
    \/ SignWithTSS

Spec == Init /\ [][Next]_vars

\* the TSSCoordinatorService key-generation API called directly
NextDKG ==
    \/ \E p \in Procs : PerformDKG(p)
    \/ \E p \in Procs : DKGStore(p)
    \/ \E p \in Procs : InitializeParties(p)
    \/ \E p \in Procs : InitStep(p)

InitDKG == Init /\ mpcConfig = DefaultConfig

SpecDKG == InitDKG /\ [][NextDKG]_vars

(***************************************************************************)
(* The public methods of TSSParty and FeldmanVSS, called on their own      *)
(***************************************************************************)
\* TSSParty.getId
TSSPartyGetId(party) == party.partyId

\* TSSParty.getKeyShare
TSSPartyGetKeyShare(party) == party.keyShare

PartyMethods ==
    {"generateCommitment", "createPartialSignature", "verifyCommitment",
     "getId", "getKeyShare"}

\* what a public method of TSSParty gives its caller: a value or a throw
PartyCall(method, party, args) ==
    CASE method = "generateCommitment" ->
            [kind |-> "ok", value |-> GenerateCommitment(party, args.message).commit]
      [] method = "createPartialSignature" ->
            IF PartialSignatureThrows(party) \/ ~HasX(args.aggregatedR)
            THEN [kind |-> "error", value |-> "throws"]
            ELSE [kind |-> "ok",
                  value |-> CreatePartialSignature(party, args.message, args.aggregatedR)]
      [] method = "verifyCommitment" ->
            [kind |-> "ok", value |-> VerifyCommitment(party, args.decommitment)]
      [] method = "getId" ->
            [kind |-> "ok", value |-> TSSPartyGetId(party)]
      [] method = "getKeyShare" ->
            [kind |-> "ok", value |-> TSSPartyGetKeyShare(party)]

\* the arguments a caller can pass to a method (the message, point and
\* decommitment a method does not take are fixed)
PartyArgs(method) ==
    [message : IF method \in {"generateCommitment", "createPartialSignature"}
               THEN Messages ELSE {<<0>>},
     aggregatedR : IF method = "createPartialSignature" THEN Points ELSE {Infinity},
     decommitment : IF method = "verifyCommitment"
                    THEN {EncodeCompressed(P) : P \in Points \ {Infinity}}
                    ELSE {EncodeCompressed(MulG(1))}]

\* a synchronous call of a public method on a Party handle: the caller of
\* slot p receives the result; generateCommitment changes the Party
PartyMethodCall(p, method) ==
    \E id \in DOMAIN parties, args \in PartyArgs(method) :
        LET party == parties[id]
            result == PartyCall(method, party, args)
        IN  /\ CanStart(p)
            /\ ret' = [ret EXCEPT ![p] =
                         [kind |-> result.kind, op |-> method, party |-> party,
                          args |-> args, value |-> result.value]]
            /\ parties' = IF method = "generateCommitment"
                          THEN [parties EXCEPT ![id] =
                                   GenerateCommitment(party, args.message).party]
                          ELSE parties
            /\ UNCHANGED <<mpcConfig, secrets, masterPublicKey, commitments, req,
                           signRet, partyWallet, dkgDone, calls, directCalls,
                           signs, faults>>

PartyGenerateCommitment(p) == PartyMethodCall(p, "generateCommitment")
PartyCreatePartialSignature(p) == PartyMethodCall(p, "createPartialSignature")
PartyVerifyCommitment(p) == PartyMethodCall(p, "verifyCommitment")
PartyGetId(p) == PartyMethodCall(p, "getId")
PartyGetKeyShare(p) == PartyMethodCall(p, "getKeyShare")

\* one constructed TSSParty, of any party id and key share
InitParty ==
    /\ mpcConfig = DefaultConfig
    /\ secrets = <<>>
    /\ \E id \in 1..MaxParties, keyShare \in Scalars :
          /\ parties = (id :> NewParty(id, keyShare))
          /\ partyWallet = (id :> "wA")
    /\ masterPublicKey = Null
    /\ commitments = <<>>
    /\ req = [p \in Procs |-> Idle]
    /\ ret = [p \in Procs |-> NoResponse]
    /\ signRet = NoResponse
    /\ dkgDone = {}
    /\ calls = 0
    /\ directCalls = 0
    /\ signs = 0
    /\ faults = 0

NextParty ==
    \/ \E p \in Procs : PartyGenerateCommitment(p)
    \/ \E p \in Procs : PartyCreatePartialSignature(p)
    \/ \E p \in Procs : PartyVerifyCommitment(p)
    \/ \E p \in Procs : PartyGetId(p)
    \/ \E p \in Procs : PartyGetKeyShare(p)

SpecParty == InitParty /\ [][NextParty]_vars

\* a call of FeldmanVSS.generateShares(threshold, totalParties) on its own:
\* the arguments and the coefficients its random draws give, any scalars
VSSCalls ==
    UNION {[op : {"generateShares"}, threshold : {threshold},
            totalParties : 1..MaxParties,
            coefficients : [1..threshold -> Scalars]] :
           threshold \in 1..MaxVSSThreshold}

\* the call runs and returns its shares and commitments
VSSGenerateShares(p) ==
    /\ req[p].op = "generateShares"
    /\ req' = [req EXCEPT ![p] = Idle]
    /\ ret' = [ret EXCEPT ![p] =
                 [kind |-> "ok", op |-> "generateShares",
                  threshold |-> req[p].threshold,
                  totalParties |-> req[p].totalParties,
                  coefficients |-> req[p].coefficients,
                  value |-> GenerateShares(req[p].coefficients, req[p].totalParties)]]
    /\ UNCHANGED <<mpcConfig, secrets, parties, masterPublicKey, commitments,
                   signRet, partyWallet, dkgDone, calls, directCalls, signs,
                   faults>>

InitVSS ==
    /\ mpcConfig = DefaultConfig
    /\ secrets = <<>>
    /\ parties = <<>>
    /\ masterPublicKey = Null
    /\ commitments = <<>>
    /\ \E call \in VSSCalls : req = [p \in Procs |-> IF p = 1 THEN call ELSE Idle]
    /\ ret = [p \in Procs |-> NoResponse]
    /\ signRet = NoResponse
    /\ partyWallet = <<>>
    /\ dkgDone = {}
    /\ calls = 0
    /\ directCalls = 0
    /\ signs = 0
    /\ faults = 0

NextVSS == \E p \in Procs : VSSGenerateShares(p)

SpecVSS == InitVSS /\ [][NextVSS]_vars

(***************************************************************************)
(* SigningService (single-key Ed25519 signing, unnamed/part_000)           *)
(***************************************************************************)
\* nacl.sign.secretKeyLength (64 bytes: seed || public key), scaled down to
\* one byte of seed and one of public key
SecretKeyLength == 2

\* the public key of a seed (stand-in for the Ed25519 derivation)
Ed25519PublicKey(seed) == <<(seed * 5 + 3) % 8>>

\* nacl.sign.keyPair() for the seed the random draw gives
KeyPair(seed) ==
    [publicKey |-> Ed25519PublicKey(seed),
     secretKey |-> <<seed>> \o Ed25519PublicKey(seed)]

\* a fromSecretKey that takes the first half of the secret key (the seed) as
\* the public key
KeyPairFromSeedHalf(secretKey) ==
    [publicKey |-> SubSeq(secretKey, 1, SecretKeyLength \div 2),
     secretKey |-> secretKey]

\* nacl.sign.keyPair.fromSecretKey: the public key is the second half of the
\* secret key (a key of another length is refused)
KeyPairFromSecretKey(secretKey) ==
    [publicKey |-> SubSeq(secretKey, (SecretKeyLength \div 2) + 1, SecretKeyLength),
     secretKey |-> secretKey]

\* nacl.sign.detached(message, secretKey) (stand-in digest of key and message)
SignDetached(messageBytes, secretKey) == <<Sha256(secretKey \o messageBytes)>>

\* Buffer.from(bytes).toString('base64') of at most two bytes: the 6-bit
\* digits of the bits of the bytes, zero bits filling the last digit
Base64Encode(bytes) ==
    IF Len(bytes) = 0 THEN <<>>
    ELSE IF Len(bytes) = 1
    THEN <<bytes[1] \div 4, (bytes[1] % 4) * 16>>
    ELSE <<bytes[1] \div 4, (bytes[1] % 4) * 16 + (bytes[2] \div 16),
           (bytes[2] % 16) * 4>>

\* Buffer.from(text, 'base64')
Base64Decode(digits) ==
    IF Len(digits) < 2 THEN <<>>
    ELSE IF Len(digits) = 2
    THEN <<digits[1] * 4 + (digits[2] \div 16)>>
    ELSE <<digits[1] * 4 + (digits[2] \div 16),
           (digits[2] % 16) * 16 + (digits[3] \div 4)>>

\* a privateKey.fill that leaves the buffer as it is
FillNothing(buffer, v) == buffer

\* buffer.fill(v)
Fill(buffer, v) == [i \in 1..Len(buffer) |-> v]

\* `${SECRETS_PREFIX}${walletId}`
EdSecretName(walletId) == <<"hyperliquid/mpc-wallets", walletId>>

\* the values callers pass as message or orderPayload: a string (an object,
\* for a payload) with its text, or a value that is none (a number as
\* message, undefined as payload)
EdInputs ==
    {[type |-> "string", bytes |-> <<b>>] : b \in 0..MaxMsgByte}
        \cup {[type |-> "other", bytes |-> <<>>]}

EdReadOps == {"signOrderPayload", "signMessage", "getPublicKey"}

\* SigningService.generateWallet up to its await: the key pair is drawn
GenerateWallet(p) ==
    \E walletId \in Wallets, seed \in 0..MaxKeyByte :
        /\ CanStart(p)
        /\ calls' = calls + 1
        /\ req' = [req EXCEPT ![p] =
                     [op |-> "generateWallet", pc |-> "store",
                      walletId |-> walletId, keyPair |-> KeyPair(seed)]]
        /\ ret' = [ret EXCEPT ![p] = NoResponse]
        /\ UNCHANGED <<mpcConfig, secrets, parties, masterPublicKey, commitments,
                       signRet, partyWallet, dkgDone, directCalls, signs, faults>>

\* a storePrivateKey that puts the value whether or not the name has one
\* (PutSecretValue in place of CreateSecret)
EdStoreOverwrite(p) ==
    /\ req[p].op = "generateWallet"
    /\ LET r == req[p]
           secretName == EdSecretName(r.walletId)
       IN  \E fault \in BOOLEAN :
            /\ fault => CanFail
            /\ faults' = IF fault THEN faults + 1 ELSE faults
            /\ IF fault
               THEN /\ Throw(p, "store error")
                    /\ UNCHANGED secrets
               ELSE /\ secrets' = MapSet(secrets, secretName,
                                         Base64Encode(r.keyPair.secretKey))
                    /\ req' = [req EXCEPT ![p] = Idle]
                    /\ ret' = [ret EXCEPT ![p] =
                                 [kind |-> "ok", op |-> r.op, walletId |-> r.walletId,
                                  publicKey |-> r.keyPair.publicKey]]
    /\ UNCHANGED <<mpcConfig, parties, masterPublicKey, commitments, signRet,
                   partyWallet, dkgDone, calls, directCalls, signs>>

\* storePrivateKey's CreateSecretCommand answers: any error, 'already exists'
\* included, ends generateWallet; else the wallet is returned
EdStore(p) ==
    /\ req[p].op = "generateWallet"
    /\ LET r == req[p]
           secretName == EdSecretName(r.walletId)
       IN  \E fault \in BOOLEAN :
            /\ fault => CanFail
            /\ faults' = IF fault THEN faults + 1 ELSE faults
            /\ IF fault \/ secretName \in DOMAIN secrets
               THEN /\ Throw(p, "store error")
                    /\ UNCHANGED secrets
               ELSE /\ secrets' = MapSet(secrets, secretName,
                                         Base64Encode(r.keyPair.secretKey))
                    /\ req' = [req EXCEPT ![p] = Idle]
                    /\ ret' = [ret EXCEPT ![p] =
                                 [kind |-> "ok", op |-> r.op, walletId |-> r.walletId,
                                  publicKey |-> r.keyPair.publicKey]]
    /\ UNCHANGED <<mpcConfig, parties, masterPublicKey, commitments, signRet,
                   partyWallet, dkgDone, calls, directCalls, signs>>

\* signOrderPayload, signMessage and getPublicKey up to their await of
\* getPrivateKey
EdRead(p, op) ==
    \E walletId \in Wallets, input \in EdInputs :
        /\ CanStart(p)
        /\ op = "getPublicKey" => input.type = "other"
        /\ calls' = calls + 1
        /\ req' = [req EXCEPT ![p] =
                     [op |-> op, pc |-> "fetch", walletId |-> walletId,
                      input |-> input]]
        /\ ret' = [ret EXCEPT ![p] = NoResponse]
        /\ UNCHANGED <<mpcConfig, secrets, parties, masterPublicKey, commitments,
                       signRet, partyWallet, dkgDone, directCalls, signs, faults>>

SignOrderPayload(p) == EdRead(p, "signOrderPayload")
SignMessage(p) == EdRead(p, "signMessage")
GetPublicKey(p) == EdRead(p, "getPublicKey")

\* the try block of the three operations: JSON.stringify / Buffer.from of the
\* input (a TypeError unless it gives a string), nacl.sign.detached and
\* nacl.sign.keyPair.fromSecretKey (an error unless the key has its length)
EdTry(op, walletId, input, privateKey) ==
    IF op # "getPublicKey" /\ input.type # "string"
    THEN [kind |-> "error", value |-> "TypeError"]
    ELSE IF Len(privateKey) # SecretKeyLength
    THEN [kind |-> "error", value |-> "bad secret key size"]
    ELSE IF op = "getPublicKey"
    THEN [kind |-> "ok", value |-> KeyPairFromSecretKey(privateKey).publicKey]
    ELSE [kind |-> "ok",
          value |-> [signature |-> SignDetached(input.bytes, privateKey),
                     publicKey |-> KeyPairFromSecretKey(privateKey).publicKey,
                     walletId |-> walletId]]

\* getPrivateKey answers and the rest of the operation runs: without a secret
\* it throws; else the try block runs on the decoded buffer and the finally
\* block fills the buffer.  privateKey of the response is a history field:
\* the buffer as the operation left it (Null: none was made)
EdFetch(p) ==
    /\ req[p].op \in EdReadOps
    /\ LET r == req[p]
           secretName == EdSecretName(r.walletId)
       IN  \E fault \in BOOLEAN :
            /\ fault => CanFail
            /\ faults' = IF fault THEN faults + 1 ELSE faults
            /\ req' = [req EXCEPT ![p] = Idle]
            /\ IF fault \/ secretName \notin DOMAIN secrets
                     \/ Len(secrets[secretName]) = 0
               THEN ret' = [ret EXCEPT ![p] =
                              [kind |-> "error", op |-> r.op, walletId |-> r.walletId,
                               privateKey |-> Null, value |-> "Private key not found"]]
               ELSE LET privateKey == Base64Decode(secrets[secretName])
                        result == EdTry(r.op, r.walletId, r.input, privateKey)
                    IN  ret' = [ret EXCEPT ![p] =
                                  [kind |-> result.kind, op |-> r.op,
                                   walletId |-> r.walletId,
                                   privateKey |-> Some(Fill(privateKey, 0)),
                                   value |-> result.value]]
    /\ UNCHANGED <<mpcConfig, secrets, parties, masterPublicKey, commitments,
                   signRet, partyWallet, dkgDone, calls, directCalls, signs>>

\* the store when the service starts: empty, or holding under a wallet's name
\* a secret of another writer that is not a key of the right length
InitSigning ==
    /\ mpcConfig = DefaultConfig
    /\ secrets \in {<<>>} \cup
          {EdSecretName("wB") :> Base64Encode(<<b>>) : b \in 1..MaxKeyByte}
    /\ parties = <<>>
    /\ masterPublicKey = Null
    /\ commitments = <<>>
    /\ req = [p \in Procs |-> Idle]
    /\ ret = [p \in Procs |-> NoResponse]
    /\ signRet = NoResponse
    /\ partyWallet = <<>>
    /\ dkgDone = {}
    /\ calls = 0
    /\ directCalls = 0
    /\ signs = 0
    /\ faults = 0

NextSigning ==
    \/ \E p \in Procs : GenerateWallet(p)
    \/ \E p \in Procs : EdStore(p)
    \/ \E p \in Procs : SignOrderPayload(p)
    \/ \E p \in Procs : SignMessage(p)
    \/ \E p \in Procs : GetPublicKey(p)
    \/ \E p \in Procs : EdFetch(p)

SpecSigning == InitSigning /\ [][NextSigning]_vars

(***************************************************************************)
(* Signing sessions on the Parties of a generated wallet                   *)
(***************************************************************************)
\* the wallet generateMPCWallet has been run for before the sessions start
SessionWallet == "wA"

\* the coefficient vectors of a performDKG run that returned: any scalars,
\* the constant term not 0 (the public key of 0 cannot be encoded)
SessionCoefficients ==
    {c \in [1..DefaultConfig.threshold -> Scalars] : HasX(MulG(c[1]))}

\* a signing request answered: signWithTSS has no await, so a session runs
\* from Round 1 to its return or throw before any other request's code does.
\* The caller (slot p) receives the response; input is the message it sent.
SessionCall(p, op, walletId, message, signingParties) ==
    /\ ret[p] = NoResponse
    /\ \A q \in Procs : q < p => ret[q] # NoResponse
    /\ calls' = calls + 1
    /\ signs' = signs + 1
    /\ LET call == SignWithTSSCall(parties, message, signingParties)
           response == [op |-> op, walletId |-> walletId, input |-> message]
                          @@ call.response
       IN  /\ parties' = call.parties
           /\ ret' = [ret EXCEPT ![p] = response]
           /\ signRet' = response
    /\ UNCHANGED <<mpcConfig, secrets, masterPublicKey, commitments, req,
                   partyWallet, dkgDone, directCalls, faults>>

\* MPCCoordinatorService.signWithMPC called by request p
SessionSignWithMPC(p) ==
    \E walletId \in Wallets, message \in Messages :
        SessionCall(p, "signWithMPC", walletId, message, <<1, 2>>)

\* TSSCoordinatorService.signWithTSS called by request p
SessionSignWithTSS(p) ==
    \E message \in Messages, signingParties \in SignerLists :
        SessionCall(p, "signWithTSS", SessionWallet, message, signingParties)

\* the state a generateMPCWallet(SessionWallet) without store faults leaves,
\* with 3 nodes and threshold 2
InitSessions ==
    \E coefficients \in SessionCoefficients :
        LET vss == GenerateShares(coefficients, DefaultConfig.nodes)
            ids == 1..DefaultConfig.nodes
        IN  /\ mpcConfig = DefaultConfig
            /\ secrets = [name \in {SecretName(SessionWallet, i) : i \in ids} |->
                             ToHex(vss.shares[name[3]])]
            /\ parties = [i \in ids |-> NewParty(i, vss.shares[i])]
            /\ masterPublicKey = Some(vss.masterPublicKey)
            /\ commitments = vss.commitments
            /\ req = [p \in Procs |-> Idle]
            /\ ret = [p \in Procs |-> NoResponse]
            /\ signRet = NoResponse
            /\ partyWallet = [i \in ids |-> SessionWallet]
            /\ dkgDone = {[walletId |-> SessionWallet, commitments |-> vss.commitments]}
            /\ calls = 1
            /\ directCalls = 0
            /\ signs = 0
            /\ faults = 0

NextSessions ==
    \/ \E p \in Procs : SessionSignWithMPC(p)
    \/ \E p \in Procs : SessionSignWithTSS(p)

SpecSessions == InitSessions /\ [][NextSessions]_vars

(***************************************************************************)
(* signWithMPC under every configuration that enables the MPC endpoints    *)
(***************************************************************************)
\* the largest MPC_THRESHOLD the environment sets here
MaxEnvThreshold == 3

\* the configurations with isMPCEnabled(): nodes >= 2, any threshold
EnabledConfigs ==
    {c \in [nodes : 1..MaxParties, threshold : 1..MaxEnvThreshold] : c.nodes >= 2}

\* the state a generateMPCWallet(SessionWallet) without store faults leaves
\* under an enabled configuration
InitEnabled ==
    \E config \in EnabledConfigs :
        \E coefficients \in {c \in [1..config.threshold -> Scalars] : HasX(MulG(c[1]))} :
            LET vss == GenerateShares(coefficients, config.nodes)
                ids == 1..config.nodes
            IN  /\ mpcConfig = config
                /\ secrets = [name \in {SecretName(SessionWallet, i) : i \in ids} |->
                                 ToHex(vss.shares[name[3]])]
                /\ parties = [i \in ids |-> NewParty(i, vss.shares[i])]
                /\ masterPublicKey = Some(vss.masterPublicKey)
                /\ commitments = vss.commitments
                /\ req = [p \in Procs |-> Idle]
                /\ ret = [p \in Procs |-> NoResponse]
                /\ signRet = NoResponse
                /\ partyWallet = [i \in ids |-> SessionWallet]
                /\ dkgDone = {[walletId |-> SessionWallet,
                               commitments |-> vss.commitments]}
                /\ calls = 1
                /\ directCalls = 0
                /\ signs = 0
                /\ faults = 0

NextEnabled == \E p \in Procs : SessionSignWithMPC(p)

SpecEnabled == InitEnabled /\ [][NextEnabled]_vars

(***************************************************************************)
(* The HTTP routes                                                         *)
(***************************************************************************)
\* the routes with preHandler: apiKeyAuth
AuthRoutes ==
    {"/wallets/generate", "/wallets/sign-order", "/wallets/sign",
     "/mpc/wallets/generate", "/mpc/wallets/sign-order"}

\* the routes that test isMPCEnabled()
MPCRoutes == {"/mpc/wallets/generate", "/mpc/wallets/sign-order"}

Routes == AuthRoutes \cup {"/wallets/:walletId/public-key"}

\* the route that calls an operation of the services
RouteOf(op) ==
    CASE op = "generateWallet" -> "/wallets/generate"
      [] op = "signOrderPayload" -> "/wallets/sign-order"
      [] op = "signMessage" -> "/wallets/sign"
      [] op = "getPublicKey" -> "/wallets/:walletId/public-key"
      [] op = "generateMPCWallet" -> "/mpc/wallets/generate"
      [] op = "signWithMPC" -> "/mpc/wallets/sign-order"

\* the status a route replies with.  apiKeyOk: the x-api-key header is the
\* API key; fieldsOk: the body fields the handler tests are present;
\* mpcEnabled: isMPCEnabled(); kind: the service call returned ("ok") or
\* threw.  apiKeyAuth replies 401, the handlers 400 before the call, and
\* every catch block 500 except the one of the public-key route, 404.
HttpStatus(route, apiKeyOk, fieldsOk, mpcEnabled, kind) ==
    IF route \in AuthRoutes /\ ~apiKeyOk THEN 401
    ELSE IF route \in AuthRoutes /\ ~fieldsOk THEN 400
    ELSE IF route \in MPCRoutes /\ ~mpcEnabled THEN 400
    ELSE IF kind = "ok" THEN 200
    ELSE IF route = "/wallets/:walletId/public-key" THEN 404
    ELSE 500

(***************************************************************************)
(* Claims                                                                  *)
(***************************************************************************)
\* the performDKG runs (direct or inside generateMPCWallet) that returned
DKGReturned(p) ==
    /\ ret[p].kind = "ok"
    /\ ret[p].op \in {"performDKG", "generateMPCWallet"}

\* the party ids that have a stored share of a wallet
StoredIds(walletId) ==
    {k \in 1..(MaxParties + 1) : SecretName(walletId, k) \in DOMAIN secrets}

StoredShare(walletId, k) == FromHex(secrets[SecretName(walletId, k)])

\* C1: a performDKG run in which a share put was answered 'already exists'
\* (the wallet id has shares of an earlier run) fails as a conflict: it does
\* not return a public key and share ids.
C1_ConflictFails ==
    \A p \in Procs : DKGReturned(p) => ~ret[p].conflict

\* C2: shares are immutable after creation: no step changes or removes the
\* value stored under a (wallet id, party id) that has one.
C2_SharesImmutable ==
    [][\A name \in DOMAIN secrets :
          name \in DOMAIN secrets' /\ secrets'[name] = secrets[name]]_vars

\* C2 witness: a performDKG run was answered 'already exists' for a share that
\* differs from the one it tried to put, and the stored value is still there.
C2_Witness ==
    \E p \in Procs :
        /\ req[p].op = "performDKG"
        /\ req[p].conflict
        /\ \E k \in 1..(req[p].i - 1) :
              /\ SecretName(req[p].walletId, k) \in DOMAIN secrets
              /\ StoredShare(req[p].walletId, k) # req[p].vss.shares[k]

\* C3: every stored share of a wallet satisfies Feldman's equation for the
\* commitment vector of every performDKG run that returned that wallet's
\* public key.
C3_StoredSharesOnReportedPolynomial ==
    \A d \in dkgDone :
        \A k \in StoredIds(d.walletId) :
            VerifyShare(k, StoredShare(d.walletId, k), d.commitments)

\* C4: signWithTSS with fewer signing party ids than the configured threshold
\* produces no signature.
C4_BelowThresholdRejected ==
    signRet.kind = "signature" =>
        Len(signRet.signingParties) >= mpcConfig.threshold

\* C5: every signature signWithTSS returns has been checked by verifySignature
\* against the master public key and passes that check.
C5_ReturnedSignatureVerified ==
    signRet.kind = "signature" =>
        /\ signRet.verified
        /\ VerifySignature(masterPublicKey, signRet.message, signRet.r, signRet.s)

\* C6: when signWithTSS has returned a signature, the ephemeral key and the
\* ephemeral commitment of every participating Party are wiped.
C6_EphemeralWipedAfterSign ==
    signRet.kind = "signature" =>
        \A k \in 1..Len(signRet.signers) :
            LET id == signRet.signers[k]
            IN  id \in DOMAIN parties =>
                    /\ parties[id].ephemeralKey = Null
                    /\ parties[id].ephemeralCommitment = Null

\* C7: when a signWithTSS session has aborted, every Party that ran
\* generateCommitment in it has its ephemeral key and commitment wiped.
C7_EphemeralWipedOnAbort ==
    signRet.kind = "error" =>
        \A id \in DOMAIN parties :
            /\ parties[id].ephemeralKey = Null
            /\ parties[id].ephemeralCommitment = Null

\* C8: a signing request for a wallet id for which no DKG has completed never
\* returns a signature.
C8_UnknownWalletRejected ==
    signRet.kind = "signature" =>
        \E d \in dkgDone : d.walletId = signRet.walletId

\* C9: every Party the coordinator holds has the share stored under the wallet
\* id it was initialised for and its party id (initializeParties fails when
\* that share cannot be read).
C9_PartiesHoldStoredShares ==
    \A id \in DOMAIN parties :
        /\ SecretName(partyWallet[id], id) \in DOMAIN secrets
        /\ StoredShare(partyWallet[id], id) = parties[id].keyShare

\* C10: signWithTSS never returns a signature whose r is 0 (mod n) or whose
\* s is 0.
C10_NonZeroSignature ==
    signRet.kind = "signature" =>
        /\ FromHex(signRet.r) % n # 0
        /\ FromHex(signRet.s) # 0

\* C11: what a public method of TSSParty other than generateCommitment and
\* createPartialSignature returns does not depend on the Party's key share or
\* ephemeral key: the same call on a Party that differs only in them returns
\* the same value.
C11_OutputsIndependentOfShare ==
    \A p \in Procs :
        (ret[p].kind = "ok" /\ ret[p].op \in {"verifyCommitment", "getId", "getKeyShare"}) =>
            \A keyShare \in Scalars, k \in {Null} \cup {Some(x) : x \in Scalars} :
                PartyCall(ret[p].op,
                          [ret[p].party EXCEPT !.keyShare = keyShare,
                                               !.ephemeralKey = k],
                          ret[p].args).value = ret[p].value

\* C12: the s of a signature signWithTSS returns is not the partial signature
\* of any single party of the session.
C12_NoPartialSignatureReturned ==
    signRet.kind = "signature" =>
        \A k \in 1..Len(signRet.partials) :
            FromHex(signRet.s) # signRet.partials[k]

\* the shares a performDKG run in flight has written to the store: those of
\* the parties its loop has passed, no put of the run having been answered
\* 'already exists'
WrittenIds(r) ==
    IF r.pc = "dkg" /\ ~r.conflict THEN 1..(r.i - 1) ELSE {}

\* C13: no share a performDKG run has written to the store equals a_0, the
\* constant coefficient generateShares drew for that run.
C13_MasterSecretNotStored ==
    \A p \in Procs :
        req[p].op \in {"performDKG", "generateMPCWallet"} =>
            \A coefficients \in Coefficients(req[p].threshold) :
                GenerateShares(coefficients, req[p].totalParties) = req[p].vss =>
                    \A k \in WrittenIds(req[p]) :
                        StoredShare(req[p].walletId, k) # coefficients[1]

\* the generateShares calls that have returned
VSSReturned(p) == ret[p].kind = "ok" /\ ret[p].op = "generateShares"

\* C14: every share generateShares returns passes verifyShare against the
\* commitments the same call returns.
C14_GeneratedSharesVerify ==
    \A p \in Procs :
        VSSReturned(p) =>
            \A k \in 1..ret[p].totalParties :
                VerifyShare(k, ret[p].value.shares[k], ret[p].value.commitments)

\* C14 witness: a returned call with a polynomial of degree 2 and three
\* parties whose shares all differ.
C14_Witness ==
    \E p \in Procs :
        /\ VSSReturned(p)
        /\ ret[p].threshold = 3
        /\ ret[p].totalParties = 3
        /\ \A j \in 1..3 : ret[p].coefficients[j] # 0
        /\ Cardinality({ret[p].value.shares[k] : k \in 1..3}) = 3

\* Lagrange basis polynomial of party i at x = 0 over the party ids
\* {i} \cup others: the product of j / (j - i) (mod n)
RECURSIVE LagrangeBasis(_, _)
LagrangeBasis(others, i) ==
    IF others = {} THEN 1
    ELSE LET j == CHOOSE x \in others : TRUE
         IN  (j * InvMod((j - i + n) % n) * LagrangeBasis(others \ {j}, i)) % n

\* Lagrange interpolation at x = 0 of the shares of the party ids in ids
RECURSIVE LagrangeSum(_, _, _)
LagrangeSum(rest, ids, shares) ==
    IF rest = {} THEN 0
    ELSE LET i == CHOOSE x \in rest : TRUE
         IN  (shares[i] * LagrangeBasis(ids \ {i}, i)
                + LagrangeSum(rest \ {i}, ids, shares)) % n

LagrangeAtZero(ids, shares) == LagrangeSum(ids, ids, shares)

\* C15: for every set of threshold distinct party ids of a generateShares
\* result, the Lagrange interpolation L at 0 of their shares satisfies
\* L*G = C_0 = the master public key.
C15_LagrangeGivesMasterKey ==
    \A p \in Procs :
        VSSReturned(p) =>
            \A ids \in SUBSET (1..ret[p].totalParties) :
                Cardinality(ids) = ret[p].threshold =>
                    /\ MulG(LagrangeAtZero(ids, ret[p].value.shares))
                          = ret[p].value.commitments[1]
                    /\ ret[p].value.commitments[1] = ret[p].value.masterPublicKey

\* C15 witness: a returned 2-of-3 call with a non-constant polynomial and a
\* master key that is a curve point.
C15_Witness ==
    \E p \in Procs :
        /\ VSSReturned(p)
        /\ ret[p].threshold = 2
        /\ ret[p].totalParties = 3
        /\ ret[p].coefficients[1] # 0
        /\ ret[p].coefficients[2] # 0
        /\ LagrangeAtZero({2, 3}, ret[p].value.shares) = ret[p].coefficients[1]

\* the shares a performDKG run in flight has verified and has put: its loop
\* verifies the share of a party and puts it before it turns to the next one
VerifiedCount(r) == r.i - 1
PutCount(r) == r.i - 1

\* C16: a performDKG run puts no share before it has verified every share of
\* the run.
C16_AllVerifiedBeforeAnyPut ==
    \A p \in Procs :
        (req[p].op \in {"performDKG", "generateMPCWallet"} /\ req[p].pc = "dkg") =>
            (PutCount(req[p]) > 0 => VerifiedCount(req[p]) = req[p].totalParties)

\* no other performDKG run has touched the wallet of the run of slot p
OnlyRunFor(p, walletId) ==
    /\ \A d \in dkgDone : d.walletId # walletId
    /\ \A q \in Procs \ {p} :
          /\ req[q].op # "idle" => req[q].walletId # walletId
          /\ ret[q].kind # "none" => ret[q].walletId # walletId

\* C17: performDKG is all-or-nothing: after a run that ended in the error of
\* a failed put the store holds no share of its wallet (no other run having
\* used that wallet id), and after a run that succeeded it holds the shares
\* of all its parties.
C17_AllOrNothing ==
    \A p \in Procs :
        /\ (ret[p].kind = "error" /\ ret[p].message = "store error"
              /\ req[p].op = "idle" /\ OnlyRunFor(p, ret[p].walletId)) =>
                StoredIds(ret[p].walletId) = {}
        /\ DKGReturned(p) =>
                \A k \in 1..Len(ret[p].shareIds) :
                    ret[p].shareIds[k] \in StoredIds(ret[p].walletId)

\* the sum of the public ephemerals k_i*G of the Parties in ids
RECURSIVE AggregateEphemerals(_, _)
AggregateEphemerals(ps, ids) ==
    IF ids = {} THEN Infinity
    ELSE LET id == CHOOSE x \in ids : TRUE
         IN  PointAdd(MulG(Val(ps[id].ephemeralKey)),
                      AggregateEphemerals(ps, ids \ {id}))

\* the sum (mod n) of a sequence of scalars
RECURSIVE SumScalars(_, _)
SumScalars(seq, i) ==
    IF i > Len(seq) THEN 0 ELSE (seq[i] + SumScalars(seq, i + 1)) % n

\* the set of party ids of a signingParties list
SignerSet(signingParties) ==
    {signingParties[k] : k \in 1..Len(signingParties)}

\* the rounds of a session that returned the signature sig, ps being the
\* Parties after it, ran in order: every signing party had made its Round 1
\* commitment and the R of Round 2 was the sum over all of them when the
\* partial signatures of Round 3 were made, and the s of Round 4 is the sum
\* of the partial signatures of all signing parties
RoundsInOrder(ps, sig) ==
    LET ids == SignerSet(sig.signingParties)
        e == Sha256(sig.message) % n
    IN  /\ \A id \in ids : id \in DOMAIN ps /\ ps[id].ephemeralKey # Null
        /\ SignerSet(sig.committed) = ids
        /\ sig.r = ToHex(GetX(AggregateEphemerals(ps, ids)))
        /\ sig.signers = sig.signingParties
        /\ \A k \in 1..Len(sig.signers) :
              sig.partials[k] =
                 (Val(ps[sig.signers[k]].ephemeralKey)
                    + (e * ps[sig.signers[k]].keyShare)) % n
        /\ FromHex(sig.s) = SumScalars(sig.partials, 1)

\* C18: within a signWithTSS session the rounds run in order: no partial
\* signature is made before every signing party has committed (Round 1) and
\* the aggregation of R (Round 2) is complete, and s is aggregated (Round 4)
\* from the partial signatures of all signing parties.
C18_RoundsInOrder ==
    [][(signRet' # signRet /\ signRet'.kind = "signature") =>
          RoundsInOrder(parties', signRet')]_vars

\* C18 witness: a session of two parties returned a signature whose r is the x
\* of the sum of both public ephemerals and of neither one alone.
C18_Witness ==
    /\ signRet.kind = "signature"
    /\ signRet.signingParties = <<1, 2>>
    /\ \A id \in {1, 2} : id \in DOMAIN parties /\ parties[id].ephemeralKey # Null
    /\ RoundsInOrder(parties, signRet)
    /\ \A id \in {1, 2} :
          signRet.r # ToHex(GetX(MulG(Val(parties[id].ephemeralKey))))

\* isMPCEnabled, the test the /mpc/wallets/generate route makes before it
\* calls generateMPCWallet
IsMPCEnabled == mpcConfig.nodes >= 2

\* C19: every DKG that generateMPCWallet starts behind the route's test runs
\* with 2 <= threshold <= nodes.
C19_DKGParametersInRange ==
    \A p \in Procs :
        (req[p].op = "generateMPCWallet" /\ IsMPCEnabled) =>
            /\ 2 <= req[p].threshold
            /\ req[p].threshold <= req[p].totalParties

\* C20: on every exit of signOrderPayload, signMessage and getPublicKey after
\* the secret was fetched, by return or by throw, the buffer that held the
\* secret is all zeros (and still has its length).
C20_SecretZeroizedOnExit ==
    \A p \in Procs :
        (ret[p].kind # "none" /\ ret[p].op \in EdReadOps /\ ret[p].privateKey # Null) =>
            LET buffer == Val(ret[p].privateKey)
            IN  /\ Len(buffer) = Len(Base64Decode(secrets[EdSecretName(ret[p].walletId)]))
                /\ \A i \in 1..Len(buffer) : buffer[i] = 0

\* C20 witness: an operation threw after it had fetched a secret with a
\* nonzero byte, and another returned normally.
C20_Witness ==
    /\ \E p \in Procs :
          /\ ret[p].kind = "error"
          /\ ret[p].op \in EdReadOps
          /\ ret[p].privateKey # Null
          /\ \E i \in 1..SecretKeyLength :
                Base64Decode(secrets[EdSecretName(ret[p].walletId)])[i] # 0
    /\ \E p \in Procs :
          /\ ret[p].kind = "ok"
          /\ ret[p].op \in EdReadOps

\* C21: SigningService.generateWallet for a walletId whose secret the store
\* already has ends with an error, and no step changes or removes a stored
\* secret (so the wallet keeps its key).
C21_ExistingWalletRejected ==
    [][/\ \A name \in DOMAIN secrets :
             name \in DOMAIN secrets' /\ secrets'[name] = secrets[name]
       /\ \A p \in Procs :
             (/\ req[p].op = "generateWallet"
              /\ req'[p] = Idle
              /\ EdSecretName(req[p].walletId) \in DOMAIN secrets)
                 => /\ ret'[p].kind = "error"
                    /\ ret'[p].op = "generateWallet"
                    /\ ret'[p].walletId = req[p].walletId
                    /\ secrets' = secrets]_vars

\* C21 witness: without any store fault a generateWallet has ended with an
\* error for a wallet whose secret is the one another generateWallet created.
C21_Witness ==
    /\ faults = 0
    /\ \E p, q \in Procs :
          /\ ret[p].kind = "error" /\ ret[p].op = "generateWallet"
          /\ ret[q].kind = "ok" /\ ret[q].op = "generateWallet"
          /\ ret[q].walletId = ret[p].walletId
          /\ EdSecretName(ret[p].walletId) \in DOMAIN secrets
          /\ KeyPairFromSecretKey(
                 Base64Decode(secrets[EdSecretName(ret[p].walletId)])).publicKey
               = ret[q].publicKey

\* the public key a response of the SigningService reports
ReportedPublicKey(r) ==
    IF r.op = "generateWallet" THEN r.publicKey
    ELSE IF r.op = "getPublicKey" THEN r.value
    ELSE r.value.publicKey

\* the SigningService responses that report the public key of a wallet
ReportsPublicKey(r, walletId) ==
    /\ r.kind = "ok"
    /\ r.op \in {"generateWallet"} \cup EdReadOps
    /\ r.walletId = walletId

\* C22: the public key generateWallet(w) returned is the one every
\* getPublicKey(w), signMessage(w, .) and signOrderPayload(w, .) reports: any
\* two responses for a wallet carry the same public key, and it is the public
\* half of the secret the store holds for the wallet (which no step changes).
C22_PublicKeyStable ==
    \A w \in Wallets :
        \A p \in Procs :
            ReportsPublicKey(ret[p], w) =>
                /\ EdSecretName(w) \in DOMAIN secrets
                /\ LET secretKey == Base64Decode(secrets[EdSecretName(w)])
                   IN  /\ Len(secretKey) = SecretKeyLength
                       /\ ReportedPublicKey(ret[p]) = Ed25519PublicKey(secretKey[1])
                /\ \A q \in Procs :
                      ReportsPublicKey(ret[q], w) =>
                          ReportedPublicKey(ret[q]) = ReportedPublicKey(ret[p])

\* C22 witness: a generateWallet returned a wallet and a read or signing
\* operation for the same wallet, answered after it, reported a public key.
C22_Witness ==
    \E p, q \in Procs :
        /\ ret[p].kind = "ok" /\ ret[p].op = "generateWallet"
        /\ ret[q].kind = "ok" /\ ret[q].op \in EdReadOps
        /\ ret[q].walletId = ret[p].walletId
        /\ ReportedPublicKey(ret[q]) = ret[p].publicKey

\* the sum of the public ephemerals parties 1 and 2 commit to for a message
SessionR(ps, message) ==
    PointAdd(MulG(GenerateDeterministicNonce(ps[1], message)),
             MulG(GenerateDeterministicNonce(ps[2], message)))

\* the signWithMPC responses for the wallet generateMPCWallet succeeded for
MPCAnswered(p) ==
    /\ ret[p] # NoResponse
    /\ ret[p].op = "signWithMPC"
    /\ ret[p].walletId = SessionWallet

\* C23 as stated: after generateMPCWallet(w) has succeeded with threshold 2
\* and 3 nodes, a signWithMPC for w completes and returns a signature and a
\* method.
C23_SignAfterGenerateCompletes ==
    \A p \in Procs :
        MPCAnswered(p) =>
            /\ ret[p].kind = "signature"
            /\ Len(ret[p].method) > 0

\* C23, amended: after generateMPCWallet(w) has succeeded with threshold 2 and
\* 3 nodes, a signWithMPC for w returns a signature and a method exactly when
\* the sum R of the public ephemerals of parties 1 and 2 is not the point at
\* infinity; when it is, the session aborts in Round 2.
C23_SignCompletesUnlessIdentityR ==
    \A p \in Procs :
        MPCAnswered(p) =>
            IF HasX(SessionR(parties, ret[p].input))
            THEN /\ ret[p].kind = "signature"
                 /\ Len(ret[p].method) > 0
                 /\ ret[p].r = ToHex(GetX(SessionR(parties, ret[p].input)))
            ELSE /\ ret[p].kind = "error"
                 /\ ret[p].round = 2

\* C23 witness: a signWithMPC for the generated wallet returned a signature
\* made by parties 1 and 2.
C23_Witness ==
    \E p \in Procs :
        /\ MPCAnswered(p)
        /\ ret[p].kind = "signature"
        /\ ret[p].signers = <<1, 2>>
        /\ HasX(SessionR(parties, ret[p].input))

\* C24: the status of an error response follows the kind of the error: 409
\* for a wallet id that already has a secret on /wallets/generate, 404 for a
\* wallet without a secret, 500 for any other error of the service (the
\* requests carry the API key and their fields; no store request failed).
C24_StatusByErrorKind ==
    \A p \in Procs :
        (/\ faults = 0
         /\ ret[p].kind = "error"
         /\ ret[p].op \in {"generateWallet"} \cup EdReadOps)
            => HttpStatus(RouteOf(ret[p].op), TRUE, TRUE, IsMPCEnabled, ret[p].kind)
                 = IF ret[p].op = "generateWallet" THEN 409
                   ELSE IF ret[p].value = "Private key not found" THEN 404
                   ELSE 500

\* C25: once a performDKG for a wallet has completed, no step changes the
\* master public key or the commitment vector the coordinator holds.
C25_MasterKeyReadOnly ==
    [][dkgDone # {} =>
          /\ masterPublicKey' = masterPublicKey
          /\ commitments' = commitments]_vars

\* the signWithTSS sessions that returned a signature to request p
SessionSigned(p) ==
    /\ ret[p] # NoResponse
    /\ ret[p].kind = "signature"

\* C26: signing sessions on the same Parties are serialized: in every session
\* that returned a signature, the k in each partial signature of Round 3 and
\* in the R of Round 2 is the k the Party stored in Round 1 of that session
\* (the nonce of that session's message), whatever other sessions ran before
\* or after it on the same Parties.
C26_SessionUsesOwnNonce ==
    \A p \in Procs :
        SessionSigned(p) =>
            LET sig == ret[p]
                e == Sha256(sig.message) % n
                k(id) == GenerateDeterministicNonce(parties[id], sig.message)
            IN  /\ \A j \in 1..Len(sig.signers) :
                      sig.partials[j] =
                         (k(sig.signers[j]) + (e * parties[sig.signers[j]].keyShare)) % n
                /\ sig.r = ToHex(GetX(AggregateEphemerals(
                               [id \in DOMAIN parties |->
                                   [parties[id] EXCEPT !.ephemeralKey = Some(k(id))]],
                               SignerSet(sig.committed))))

\* C26 witness: two sessions returned signatures for different messages, and
\* a Party that signed in both drew a different k in each.
C26_Witness ==
    /\ SessionSigned(1) /\ SessionSigned(2)
    /\ ret[1].message # ret[2].message
    /\ \E id \in SignerSet(ret[1].signers) \cap SignerSet(ret[2].signers) :
          GenerateDeterministicNonce(parties[id], ret[1].message)
             # GenerateDeterministicNonce(parties[id], ret[2].message)

\* C27: initializeParties runs for a wallet only after the performDKG of the
\* same generateMPCWallet has completed: a request is in initializeParties
\* only with its DKG among the completed ones, a Party is created or given
\* another share only by such a request, and a generateMPCWallet whose
\* performDKG fails ends there, the Parties left as they were.
C27_InitOnlyAfterDKG ==
    [][/\ \A p \in Procs :
             (req'[p].op = "generateMPCWallet" /\ req'[p].pc = "init") =>
                 [walletId |-> req'[p].walletId,
                  commitments |-> req'[p].vss.commitments] \in dkgDone'
       /\ (\E id \in DOMAIN parties' :
              id \notin DOMAIN parties \/ parties'[id].keyShare # parties[id].keyShare)
            => \E p \in Procs :
                  /\ req[p].op = "generateMPCWallet" /\ req[p].pc = "init"
                  /\ \E d \in dkgDone : d.walletId = req[p].walletId
       /\ \A p \in Procs :
             (/\ req[p].op = "generateMPCWallet" /\ req[p].pc = "dkg"
              /\ ret'[p].kind = "error")
                => /\ req'[p] = Idle
                   /\ parties' = parties
                   /\ partyWallet' = partyWallet]_vars

\* C27 witness: a generateMPCWallet ended with the error of its performDKG
\* while the Parties are those another generateMPCWallet initialised, for
\* another wallet.
C27_Witness ==
    \E p, q \in Procs :
        /\ ret[p].kind = "error" /\ ret[p].op = "generateMPCWallet"
        /\ ret[q].kind = "ok" /\ ret[q].op = "generateMPCWallet"
        /\ ret[q].walletId # ret[p].walletId
        /\ DOMAIN parties = 1..mpcConfig.nodes
        /\ \A id \in DOMAIN parties : partyWallet[id] = ret[q].walletId

\* how many times a party id occurs in a list
Occurrences(seq, id) == Cardinality({k \in 1..Len(seq) : seq[k] = id})

\* C28: in every signWithTSS session that returned a signature, the parties
\* whose public ephemeral is summed into R are, with their multiplicities,
\* the parties whose partial signature is summed into s.
C28_SameSignersInRAndS ==
    signRet.kind = "signature" =>
        \A id \in 0..(MaxParties + 1) :
            Occurrences(signRet.committed, id) = Occurrences(signRet.signers, id)

\* C29: with 3 nodes and threshold 2, a signature returned for a wallet whose
\* DKG has completed is computed from the shares of that wallet only: every
\* Party that signs was initialised with a share read for that wallet.
C29_WalletIsolation ==
    [][(/\ mpcConfig = DefaultConfig
        /\ signRet' # signRet
        /\ signRet'.kind = "signature"
        /\ \E d \in dkgDone : d.walletId = signRet'.walletId)
          => \A k \in 1..Len(signRet'.signers) :
                partyWallet[signRet'.signers[k]] = signRet'.walletId]_vars

\* C30: with 3 nodes and threshold 2, all Parties that sign in one session
\* hold shares of the same wallet, however generateMPCWallet requests
\* interleave with the signing request.
C30_OneWalletPerSession ==
    [][(/\ mpcConfig = DefaultConfig
        /\ signRet' # signRet
        /\ signRet'.kind = "signature")
          => \A j, k \in 1..Len(signRet'.signers) :
                partyWallet[signRet'.signers[j]] = partyWallet[signRet'.signers[k]]]_vars

\* C31: under every configuration that enables the MPC endpoints (here: those
\* with threshold <= nodes), a signature signWithMPC returns was produced by
\* at least mpcConfig.threshold distinct parties.
C31_ThresholdManySigners ==
    \A p \in Procs :
        (/\ mpcConfig.nodes >= 2
         /\ mpcConfig.threshold <= mpcConfig.nodes
         /\ ret[p] # NoResponse
         /\ ret[p].op = "signWithMPC"
         /\ ret[p].kind = "signature")
            => Cardinality(SignerSet(ret[p].signers)) >= mpcConfig.threshold

\* C32: createPartialSignature fails unless generateCommitment was invoked on
\* the Party earlier in the same signing session: between sessions (a session
\* runs from Round 1 to its return or throw without interruption, so in every
\* state none is under way) the call fails on every Party the coordinator
\* holds, for every message and every point R.
C32_PartialSignatureNeedsCommitment ==
    \A id \in DOMAIN parties :
        \A message \in Messages, R \in Points :
            PartyCall("createPartialSignature", parties[id],
                      [message |-> message, aggregatedR |-> R]).kind = "error"

\* what a session answered its caller: a signature's (r, s), or the throw
SessionAnswer(r) ==
    IF r.kind = "signature" THEN <<r.kind, r.r, r.s>>
    ELSE <<r.kind, r.round, r.message>>

\* C33: signing is deterministic: two signWithTSS sessions on the same
\* initialised Parties with the same message and the same signing party list
\* return the same (r, s) (or fail alike), whatever the Parties hold from
\* earlier sessions; the k a Party holds is the nonce of its share and of a
\* message.
C33_SigningDeterministic ==
    /\ \A p, q \in Procs :
          (/\ ret[p] # NoResponse /\ ret[q] # NoResponse
           /\ ret[p].input = ret[q].input
           /\ ret[p].signingParties = ret[q].signingParties)
              => SessionAnswer(ret[p]) = SessionAnswer(ret[q])
    /\ \A id \in DOMAIN parties :
          parties[id].ephemeralKey # Null =>
              \E message \in Messages :
                  Val(parties[id].ephemeralKey)
                     = GenerateDeterministicNonce(NewParty(id, parties[id].keyShare),
                                                  message)

\* C33 witness: two sessions with the same message and the same list of two
\* parties both returned a signature.
C33_Witness ==
    /\ SessionSigned(1) /\ SessionSigned(2)
    /\ ret[1].input = ret[2].input
    /\ ret[1].signingParties = ret[2].signingParties
    /\ Cardinality(SignerSet(ret[1].signers)) = 2
    /\ ret[1].r = ret[2].r /\ ret[1].s = ret[2].s

\* C34: whenever a Party holds an ephemeral key it lies in [1, n), and so
\* does every public ephemeral a session committed to: a hash residue of 0 is
\* replaced by 1.
C34_EphemeralKeyInRange ==
    \A id \in DOMAIN parties :
        parties[id].ephemeralKey # Null =>
            /\ Val(parties[id].ephemeralKey) \in 1..(n - 1)
            /\ MulG(Val(parties[id].ephemeralKey)) # Infinity

\* C34 witness: a Party holds the ephemeral key 1 after a session on a
\* message for which the hash residue of its share and the message is 0.
C34_Witness ==
    \E p \in Procs, id \in DOMAIN parties :
        /\ ret[p] # NoResponse
        /\ \E k \in 1..Len(ret[p].signingParties) : ret[p].signingParties[k] = id
        /\ Sha256(KeyBytes(parties[id].keyShare) \o ret[p].input) % n = 0
        /\ parties[id].ephemeralKey = Some(1)

\* C35: every polynomial coefficient generateShares draws, the master secret
\* a_0 among them, lies in [1, n).
C35_CoefficientsNonZero ==
    \A p \in Procs :
        VSSReturned(p) =>
            \A j \in 1..Len(ret[p].coefficients) :
                ret[p].coefficients[j] \in 1..(n - 1)

\* C36: a zero share is rejected: no share that performDKG has stored is 0,
\* and no Party that initializeParties has constructed from a stored share
\* holds the share 0.
C36_ZeroShareRejected ==
    /\ \A w \in Wallets :
          \A k \in StoredIds(w) : StoredShare(w, k) # 0
    /\ \A id \in DOMAIN parties :
          (/\ id \in StoredIds(partyWallet[id])
           /\ parties[id].keyShare = StoredShare(partyWallet[id], id))
              => parties[id].keyShare # 0

\* C37: party ids are non-zero: the Parties generateMPCWallet's
\* initializeParties creates are those of the ids 1..nodes (all of them once
\* it has returned), and a signing call whose list has the id 0 or any id
\* without a Party ends in the error of Round 1 and returns no signature.
C37_PartyIdsNonZero ==
    [][/\ DOMAIN parties' \subseteq 1..mpcConfig.nodes
       /\ \A p \in Procs :
             (/\ req[p].op = "generateMPCWallet" /\ req[p].pc = "init"
              /\ req'[p] = Idle)
                => DOMAIN parties' = 1..req[p].totalParties
       /\ (/\ signs' = signs + 1
           /\ \E k \in 1..Len(signRet'.signingParties) :
                 \/ signRet'.signingParties[k] = 0
                 \/ signRet'.signingParties[k] \notin DOMAIN parties)
             => /\ signRet'.kind = "error"
                /\ signRet'.round = 1]_vars

\* C37 witness: with Party 1 initialised, a signing call whose list names
\* party 1 and the id 0 has ended in the error of Round 1.
C37_Witness ==
    /\ 1 \in DOMAIN parties
    /\ signRet.kind = "error"
    /\ signRet.round = 1
    /\ SignerSet(signRet.signingParties) = {0, 1}

\* C38: a performDKG(w, t, n) that returns, no put of it having been answered
\* 'already exists' and no other run having used w, returns the share ids
\* 1..n in order, leaves exactly the n shares of its polynomial stored for w,
\* has a commitment vector of length t, and returns the compressed encoding
\* of C_0 as the public key.
C38_DKGResultShape ==
    [][\A p \in Procs :
          (/\ req[p].op = "performDKG"
           /\ ret'[p] # ret[p]
           /\ ret'[p].kind = "ok"
           /\ ~ret'[p].conflict
           /\ OnlyRunFor(p, req[p].walletId))
             => LET r == req[p]
                IN  /\ ret'[p].shareIds = [k \in 1..r.totalParties |-> k]
                    /\ {k \in 1..(MaxParties + 1) :
                           SecretName(r.walletId, k) \in DOMAIN secrets'}
                         = 1..r.totalParties
                    /\ \A k \in 1..r.totalParties :
                          FromHex(secrets'[SecretName(r.walletId, k)]) = r.vss.shares[k]
                    /\ Len(r.vss.commitments) = r.threshold
                    /\ commitments' = commitments
                    /\ ret'[p].publicKey = EncodeCompressed(r.vss.commitments[1])]_vars

\* C38 witness: a performDKG with threshold 2 and 3 parties has returned on a
\* wallet id no other run used, and the store holds 3 shares for it.
C38_Witness ==
    \E p \in Procs :
        /\ ret[p].kind = "ok" /\ ret[p].op = "performDKG"
        /\ ~ret[p].conflict
        /\ Len(ret[p].shareIds) = 3
        /\ StoredIds(ret[p].walletId) = 1..3
        /\ \E d \in dkgDone :
              d.walletId = ret[p].walletId /\ Len(d.commitments) = 2

\* C39: when generateWallet exits, by returning the wallet or by the throw of
\* a failed store write, the buffer that holds the generated secret key
\* (keyPair.secretKey, which no statement of the operation writes to) is all
\* zeros.
C39_GeneratedKeyZeroizedOnExit ==
    [][\A p \in Procs :
          (req[p].op = "generateWallet" /\ req'[p] = Idle) =>
              \A i \in 1..Len(req[p].keyPair.secretKey) :
                  req[p].keyPair.secretKey[i] = 0]_vars

====
